---- MODULE Spec2Model ----
(***************************************************************************)
(* securecloudflareimg: list the images of a Cloudflare account, patch     *)
(* every image that does not require signed URLs, list again and report.   *)
(*                                                                         *)
(* Spec        one run of main (main.go:17-68) against the image service.  *)
(* ClientSpec  the two client operations called directly, in any order,    *)
(*             against a service holding an arbitrary list of images.      *)
(***************************************************************************)
EXTENDS Integers, Sequences, FiniteSets, Bags, TLC

VARIABLES
    accountID,          \* -cf-acct-id flag
    apiKey,             \* -cf-api-key flag
    pc,                 \* position of main
    images,             \* service: the images the run can change, in service order
    pad,                \* service: number of already protected images listed before them
    unprotectedImages,  \* main's local variable
    i,                  \* number of iterations of the range loop done
    wg,                 \* sync.WaitGroup counter
    gs,                 \* the goroutines launched so far, in launch order
    log,                \* bag of lines written through package log / flag.Usage
    listCalls,          \* history: what each getUnprotectedImages call returned
    secureCalls,        \* history: number of secureImage calls per image id
    lastCall            \* ClientSpec: the last client operation, its exchange and result

vars == <<accountID, apiKey, pc, images, pad, unprotectedImages, i, wg, gs, log,
          listCalls, secureCalls, lastCall>>

----------------------------------------------------------------------------
(* Bounds *)

MaxImages == 3

MaxLen == 2

(* Program constants *)

maxPageSize == 100

StatusOK == 200

Ids == 1..MaxImages

Statuses == {StatusOK, 500}

----------------------------------------------------------------------------
(* Errors, named by the message the code formats *)

Nil == "nil"

ErrPrepare == "could not prepare request"

ErrSend == "could not send request"

ErrStatus == "unexpected status code"

ErrDecode == "could not decode response"

ErrListNotSuccessful == "list images response not successful"

ErrUpdateNotSuccessful == "update image response not successful"

(* The spec's taxonomy of these errors *)
TransportError(err) == err \in {ErrPrepare, ErrSend}

ProtocolError(err) == err = ErrStatus

DecodeError(err) == err = ErrDecode

ServiceError(err) == err \in {ErrListNotSuccessful, ErrUpdateNotSuccessful}

----------------------------------------------------------------------------
(* The image service *)

Image(id, req) == [id |-> id, requireSignedURLs |-> req]

\* the already protected images that precede the others; their ids are negative
PadImages(p) == [k \in 1..p |-> Image(0 - k, TRUE)]

Min(a, b) == IF a < b THEN a ELSE b

ServicePageNoLimit(imgs, p) == PadImages(p) \o imgs

\* GET ...?page=1&per_page=100: the first page of the service's images
ServicePage(imgs, p) ==
    LET all == PadImages(p) \o imgs
    IN  SubSeq(all, 1, Min(Len(all), maxPageSize))

PatchAll(imgs, id) == [k \in DOMAIN imgs |-> Image(imgs[k].id, TRUE)]

PatchWrongFlag(imgs, id) ==
    [k \in DOMAIN imgs |->
        IF imgs[k].id = id THEN Image(id, FALSE) ELSE imgs[k]]

\* PATCH .../images/v1/{id} with body {"requireSignedURLs": true}
Patch(imgs, id) ==
    [k \in DOMAIN imgs |->
        IF imgs[k].id = id THEN Image(id, TRUE) ELSE imgs[k]]

\* url.Parse inside http.NewRequest rejects a bad escape in the account id
UrlOk(acct) == acct # "%zz"

\* One HTTP exchange: whether NewRequest built the request, whether Do returned a
\* response, and the response's status and body (a body that does not decode
\* leaves the zero-valued envelope).
NotPrepared ==
    [prepared |-> FALSE, sent |-> FALSE, status |-> 0, decodes |-> FALSE,
     success |-> FALSE, images |-> <<>>]

NoResponse == [NotPrepared EXCEPT !.prepared = TRUE]

Exchanges(acct, page) ==
    IF ~UrlOk(acct) THEN {NotPrepared}
    ELSE {NoResponse} \cup
         {[prepared |-> TRUE, sent |-> TRUE, status |-> s, decodes |-> d,
           success |-> d /\ u, images |-> IF d /\ u THEN page ELSE <<>>] :
             s \in Statuses, d \in BOOLEAN, u \in BOOLEAN}

----------------------------------------------------------------------------
(* The client *)

RECURSIVE UnprotectedAll(_)
UnprotectedAll(imgs) ==
    IF imgs = <<>> THEN <<>>
    ELSE <<Head(imgs).id>> \o UnprotectedAll(Tail(imgs))

\* the loop of getUnprotectedImages that keeps the ids not requiring signed URLs
RECURSIVE Unprotected(_)
Unprotected(imgs) ==
    IF imgs = <<>> THEN <<>>
    ELSE IF ~Head(imgs).requireSignedURLs
         THEN <<Head(imgs).id>> \o Unprotected(Tail(imgs))
         ELSE Unprotected(Tail(imgs))

ListFailed(err) == [ids |-> <<>>, err |-> err, warned |-> FALSE]

getUnprotectedImagesNoSuccessCheck(x) ==
    IF ~x.prepared THEN ListFailed(ErrPrepare)
    ELSE IF ~x.sent THEN ListFailed(ErrSend)
    ELSE IF x.status # StatusOK THEN ListFailed(ErrStatus)
    ELSE IF ~x.decodes THEN ListFailed(ErrDecode)
    ELSE [ids |-> Unprotected(x.images), err |-> Nil,
          warned |-> Len(x.images) = maxPageSize]

getUnprotectedImagesWarnOffByOne(x) ==
    IF ~x.prepared THEN ListFailed(ErrPrepare)
    ELSE IF ~x.sent THEN ListFailed(ErrSend)
    ELSE IF x.status # StatusOK THEN ListFailed(ErrStatus)
    ELSE IF ~x.decodes THEN ListFailed(ErrDecode)
    ELSE IF ~x.success THEN ListFailed(ErrListNotSuccessful)
    ELSE [ids |-> Unprotected(x.images), err |-> Nil,
          warned |-> Len(x.images) >= maxPageSize - 1]

getUnprotectedImages(x) ==
    IF ~x.prepared THEN ListFailed(ErrPrepare)
    ELSE IF ~x.sent THEN ListFailed(ErrSend)
    ELSE IF x.status # StatusOK THEN ListFailed(ErrStatus)
    ELSE IF ~x.decodes THEN ListFailed(ErrDecode)
    ELSE IF ~x.success THEN ListFailed(ErrListNotSuccessful)
    ELSE [ids |-> Unprotected(x.images), err |-> Nil,
          warned |-> Len(x.images) = maxPageSize]

secureImageDecodeFirst(x) ==
    IF ~x.prepared THEN ErrPrepare
    ELSE IF ~x.sent THEN ErrSend
    ELSE IF ~x.decodes THEN ErrDecode
    ELSE IF x.status # StatusOK THEN ErrStatus
    ELSE IF ~x.success THEN ErrUpdateNotSuccessful
    ELSE Nil

secureImageInverted(x) ==
    IF ~x.prepared THEN ErrPrepare
    ELSE IF ~x.sent THEN ErrSend
    ELSE IF x.status # StatusOK THEN ErrStatus
    ELSE IF ~x.decodes THEN ErrDecode
    ELSE IF x.success THEN ErrUpdateNotSuccessful
    ELSE Nil

secureImage(x) ==
    IF ~x.prepared THEN ErrPrepare
    ELSE IF ~x.sent THEN ErrSend
    ELSE IF x.status # StatusOK THEN ErrStatus
    ELSE IF ~x.decodes THEN ErrDecode
    ELSE IF ~x.success THEN ErrUpdateNotSuccessful
    ELSE Nil

----------------------------------------------------------------------------
(* The log *)

Entry(msg, arg, err) == [msg |-> msg, arg |-> arg, err |-> err]

Logged(e) == log (+) SetToBag({e})

LogCount(msg) ==
    BagCardinality([e \in {d \in BagToSet(log) : d.msg = msg} |-> log[e]])

NoCall == [op |-> "none", id |-> 0, x |-> NotPrepared, before |-> <<>>,
           ret |-> ListFailed(Nil)]

ListCall(x, ret) == [ids |-> ret.ids, err |-> ret.err, page |-> x.images]

----------------------------------------------------------------------------
(* One run of main *)

Flags == {"", "acct", "%zz"}

Keys == {"", "key"}

ServiceImages ==
    UNION {{[k \in 1..n |-> Image(k, f[k])] : f \in [1..n -> BOOLEAN]} : n \in 0..MaxImages}

Pads == {0, maxPageSize - 1}

Init ==
    /\ accountID \in Flags
    /\ apiKey \in Keys
    /\ pc = "flags"
    /\ images \in ServiceImages
    /\ pad \in Pads
    /\ unprotectedImages = <<>>
    /\ i = 0
    /\ wg = 0
    /\ gs = <<>>
    /\ log = EmptyBag
    /\ listCalls = <<>>
    /\ secureCalls = [id \in Ids |-> 0]
    /\ lastCall = NoCall

\* the process is running: log.Fatalln and the return of main end every goroutine
Alive == pc \notin {"usage", "fatal1", "fatal2", "done"}

ParseFlagsBothMissing ==
    /\ pc = "flags"
    /\ IF accountID = "" /\ apiKey = ""
       THEN /\ pc' = "usage"
            /\ log' = Logged(Entry("usage", 0, Nil))
       ELSE /\ pc' = "list1"
            /\ UNCHANGED log
    /\ UNCHANGED <<accountID, apiKey, images, pad, unprotectedImages, i, wg, gs,
                   listCalls, secureCalls, lastCall>>

\* main.go:18-25
ParseFlags ==
    /\ pc = "flags"
    /\ IF accountID = "" \/ apiKey = ""
       THEN /\ pc' = "usage"
            /\ log' = Logged(Entry("usage", 0, Nil))
       ELSE /\ pc' = "list1"
            /\ UNCHANGED log
    /\ UNCHANGED <<accountID, apiKey, images, pad, unprotectedImages, i, wg, gs,
                   listCalls, secureCalls, lastCall>>

WithWarning(l, ret) ==
    IF ret.warned THEN l (+) SetToBag({Entry("more pages", 0, Nil)}) ELSE l

List1IgnoreErr ==
    /\ pc = "list1"
    /\ \E x \in Exchanges(accountID, ServicePage(images, pad)) :
         LET ret == getUnprotectedImages(x) IN
         /\ listCalls' = Append(listCalls, ListCall(x, ret))
         /\ pc' = "loop"
         /\ log' = WithWarning(log, ret)
         /\ unprotectedImages' = ret.ids
    /\ UNCHANGED <<accountID, apiKey, images, pad, i, wg, gs, secureCalls, lastCall>>

\* main.go:36-39
List1 ==
    /\ pc = "list1"
    /\ \E x \in Exchanges(accountID, ServicePage(images, pad)) :
         LET ret == getUnprotectedImages(x) IN
         /\ listCalls' = Append(listCalls, ListCall(x, ret))
         /\ IF ret.err # Nil
            THEN /\ pc' = "fatal1"
                 /\ log' = Logged(Entry("failed to get images id", 0, ret.err))
                 /\ UNCHANGED unprotectedImages
            ELSE /\ pc' = "loop"
                 /\ log' = WithWarning(log, ret)
                 /\ unprotectedImages' = ret.ids
    /\ UNCHANGED <<accountID, apiKey, images, pad, i, wg, gs, secureCalls, lastCall>>

\* main.go:43-46 and 53: one iteration of the range loop
Launch ==
    /\ pc = "loop"
    /\ i < Len(unprotectedImages)
    /\ i' = i + 1
    /\ wg' = wg + 1
    /\ gs' = Append(gs, [id |-> unprotectedImages[i + 1], pc |-> "run",
                         err |-> Nil, applied |-> FALSE])
    /\ UNCHANGED <<accountID, apiKey, pc, images, pad, unprotectedImages, log,
                   listCalls, secureCalls, lastCall>>

\* main.go:43, 54-55: the range is exhausted, main calls wg.Wait
EndLoop ==
    /\ pc = "loop"
    /\ i = Len(unprotectedImages)
    /\ pc' = "wait"
    /\ UNCHANGED <<accountID, apiKey, images, pad, unprotectedImages, i, wg, gs, log,
                   listCalls, secureCalls, lastCall>>

WaitNoBarrier ==
    /\ pc = "wait"
    /\ pc' = "list2"
    /\ UNCHANGED <<accountID, apiKey, images, pad, unprotectedImages, i, wg, gs, log,
                   listCalls, secureCalls, lastCall>>

\* main.go:55: wg.Wait returns
Wait ==
    /\ pc = "wait"
    /\ wg = 0
    /\ pc' = "list2"
    /\ UNCHANGED <<accountID, apiKey, images, pad, unprotectedImages, i, wg, gs, log,
                   listCalls, secureCalls, lastCall>>

GoSecureWrongId(k) ==
    /\ Alive
    /\ k \in DOMAIN gs
    /\ gs[k].pc = "run"
    /\ \E x \in Exchanges(accountID, <<>>), applied \in BOOLEAN :
         /\ applied => x.prepared
         /\ images' = IF applied THEN Patch(images, unprotectedImages[i]) ELSE images
         /\ gs' = [gs EXCEPT ![k] = [id |-> gs[k].id, pc |-> "ret",
                                     err |-> secureImage(x), applied |-> applied]]
    /\ secureCalls' = [secureCalls EXCEPT ![unprotectedImages[i]] = @ + 1]
    /\ UNCHANGED <<accountID, apiKey, pc, pad, unprotectedImages, i, wg, log,
                   listCalls, lastCall>>

\* main.go:48: goroutine k calls secureImage(id); the service may apply the update
\* whenever the request was built and handed to the transport
GoSecure(k) ==
    /\ Alive
    /\ k \in DOMAIN gs
    /\ gs[k].pc = "run"
    /\ \E x \in Exchanges(accountID, <<>>), applied \in BOOLEAN :
         /\ applied => x.prepared
         /\ images' = IF applied THEN Patch(images, gs[k].id) ELSE images
         /\ gs' = [gs EXCEPT ![k] = [id |-> gs[k].id, pc |-> "ret",
                                     err |-> secureImage(x), applied |-> applied]]
    /\ secureCalls' = [secureCalls EXCEPT ![gs[k].id] = @ + 1]
    /\ UNCHANGED <<accountID, apiKey, pc, pad, unprotectedImages, i, wg, log,
                   listCalls, lastCall>>

Outcome(g) ==
    IF g.err # Nil THEN Entry("failed to secure image", g.id, g.err)
    ELSE Entry("successfully secured image", g.id, Nil)

GoReturnWrongId(k) ==
    /\ Alive
    /\ k \in DOMAIN gs
    /\ gs[k].pc = "ret"
    /\ log' = Logged(Outcome([gs[k] EXCEPT !.id = unprotectedImages[i]]))
    /\ wg' = wg - 1
    /\ gs' = [gs EXCEPT ![k].pc = "done"]
    /\ UNCHANGED <<accountID, apiKey, pc, images, pad, unprotectedImages, i,
                   listCalls, secureCalls, lastCall>>

GoReturnRetry(k) ==
    /\ Alive
    /\ k \in DOMAIN gs
    /\ gs[k].pc = "ret"
    /\ log' = Logged(Outcome(gs[k]))
    /\ IF gs[k].err # Nil
       THEN gs' = [gs EXCEPT ![k].pc = "run"] /\ UNCHANGED wg
       ELSE gs' = [gs EXCEPT ![k].pc = "done"] /\ wg' = wg - 1
    /\ UNCHANGED <<accountID, apiKey, pc, images, pad, unprotectedImages, i,
                   listCalls, secureCalls, lastCall>>

GoReturnFatal(k) ==
    /\ Alive
    /\ k \in DOMAIN gs
    /\ gs[k].pc = "ret"
    /\ log' = Logged(Outcome(gs[k]))
    /\ IF gs[k].err # Nil
       THEN pc' = "fatal1" /\ UNCHANGED <<gs, wg>>
       ELSE gs' = [gs EXCEPT ![k].pc = "done"] /\ wg' = wg - 1 /\ UNCHANGED pc
    /\ UNCHANGED <<accountID, apiKey, images, pad, unprotectedImages, i,
                   listCalls, secureCalls, lastCall>>

GoReturnNoDoneOnFailure(k) ==
    /\ Alive
    /\ k \in DOMAIN gs
    /\ gs[k].pc = "ret"
    /\ log' = Logged(Outcome(gs[k]))
    /\ wg' = IF gs[k].err # Nil THEN wg ELSE wg - 1
    /\ gs' = [gs EXCEPT ![k].pc = "done"]
    /\ UNCHANGED <<accountID, apiKey, pc, images, pad, unprotectedImages, i,
                   listCalls, secureCalls, lastCall>>

\* main.go:47-52: goroutine k logs the outcome of its call and returns, which runs
\* the deferred wg.Done
GoReturn(k) ==
    /\ Alive
    /\ k \in DOMAIN gs
    /\ gs[k].pc = "ret"
    /\ log' = Logged(Outcome(gs[k]))
    /\ wg' = wg - 1
    /\ gs' = [gs EXCEPT ![k].pc = "done"]
    /\ UNCHANGED <<accountID, apiKey, pc, images, pad, unprotectedImages, i,
                   listCalls, secureCalls, lastCall>>

List2IgnoreErr ==
    /\ pc = "list2"
    /\ \E x \in Exchanges(accountID, ServicePage(images, pad)) :
         LET ret == getUnprotectedImages(x) IN
         /\ listCalls' = Append(listCalls, ListCall(x, ret))
         /\ pc' = "report"
         /\ log' = WithWarning(log, ret)
         /\ unprotectedImages' = ret.ids
    /\ UNCHANGED <<accountID, apiKey, images, pad, i, wg, gs, secureCalls, lastCall>>

\* main.go:58-61
List2 ==
    /\ pc = "list2"
    /\ \E x \in Exchanges(accountID, ServicePage(images, pad)) :
         LET ret == getUnprotectedImages(x) IN
         /\ listCalls' = Append(listCalls, ListCall(x, ret))
         /\ IF ret.err # Nil
            THEN /\ pc' = "fatal2"
                 /\ log' = Logged(Entry("failed to get images id", 0, ret.err))
                 /\ UNCHANGED unprotectedImages
            ELSE /\ pc' = "report"
                 /\ log' = WithWarning(log, ret)
                 /\ unprotectedImages' = ret.ids
    /\ UNCHANGED <<accountID, apiKey, images, pad, i, wg, gs, secureCalls, lastCall>>

ReportAlways ==
    /\ pc = "report"
    /\ pc' = "done"
    /\ log' = Logged(Entry("images left unprotected", Len(unprotectedImages), Nil))
                 (+) SetToBag({Entry("done", 0, Nil)})
    /\ UNCHANGED <<accountID, apiKey, images, pad, unprotectedImages, i, wg, gs,
                   listCalls, secureCalls, lastCall>>

\* main.go:63-67
Report ==
    /\ pc = "report"
    /\ pc' = "done"
    /\ log' = (IF Len(unprotectedImages) > 0
               THEN Logged(Entry("images left unprotected", Len(unprotectedImages), Nil))
               ELSE log) (+) SetToBag({Entry("done", 0, Nil)})
    /\ UNCHANGED <<accountID, apiKey, images, pad, unprotectedImages, i, wg, gs,
                   listCalls, secureCalls, lastCall>>

Next ==
    \/ ParseFlags
    \/ List1
    \/ Launch
    \/ EndLoop
    \/ Wait
    \/ \E k \in 1..MaxImages : GoSecure(k)
    \/ \E k \in 1..MaxImages : GoReturn(k)
    \/ List2
    \/ Report

Spec == Init /\ [][Next]_vars

\* Every remote call returns (httpCli.Timeout, main.go:28) and the scheduler runs
\* runnable goroutines: the run does not halt while a step is possible.
Fairness == WF_vars(Next)

FairSpec == Spec /\ Fairness

----------------------------------------------------------------------------
(* The client operations called directly against a service *)

MockImages ==
    UNION {[1..n -> {Image(id, req) : id \in Ids, req \in BOOLEAN}] : n \in 0..MaxLen}

ClientInit ==
    /\ accountID \in {"acct", "%zz"}
    /\ apiKey = "key"
    /\ pc = "client"
    /\ images \in MockImages
    /\ pad \in Pads
    /\ unprotectedImages = <<>>
    /\ i = 0
    /\ wg = 0
    /\ gs = <<>>
    /\ log = EmptyBag
    /\ listCalls = <<>>
    /\ secureCalls = [id \in Ids |-> 0]
    /\ lastCall = NoCall

\* a call of getUnprotectedImages (main.go:90-130, part_000:42-82)
CallList ==
    /\ pc = "client"
    /\ \E x \in Exchanges(accountID, ServicePage(images, pad)) :
         lastCall' = [op |-> "list", id |-> 0, x |-> x, before |-> images,
                      ret |-> getUnprotectedImages(x)]
    /\ UNCHANGED <<accountID, apiKey, pc, images, pad, unprotectedImages, i, wg, gs,
                   log, listCalls, secureCalls>>

\* a call of secureImage(id) (main.go:133-166, part_000:85-118)
CallSecure(id) ==
    /\ pc = "client"
    /\ \E x \in Exchanges(accountID, <<>>), applied \in BOOLEAN :
         /\ applied => x.prepared
         /\ images' = IF applied THEN Patch(images, id) ELSE images
         /\ lastCall' = [op |-> "secure", id |-> id, x |-> x, before |-> images,
                         ret |-> ListFailed(secureImage(x))]
    /\ UNCHANGED <<accountID, apiKey, pc, pad, unprotectedImages, i, wg, gs, log,
                   listCalls, secureCalls>>

ClientNext ==
    \/ CallList
    \/ \E id \in Ids : CallSecure(id)

ClientSpec == ClientInit /\ [][ClientNext]_vars

----------------------------------------------------------------------------
(* Claims *)

PastJoin == pc \in {"list2", "report", "done", "fatal2"}

AllDone == \A k \in DOMAIN gs : gs[k].pc = "done"

Failed(k) == gs[k].pc # "run" /\ gs[k].err # Nil

Succeeded(k) == gs[k].pc # "run" /\ gs[k].err = Nil

Occ(id, s) == Cardinality({m \in DOMAIN s : s[m] = id})

\* C1: the second list call is issued only after every launched secureImage
\* invocation has completed: once main is at, or past, the second list call,
\* one goroutine per id of the first list exists and every one has finished.
C1_SecondListAfterJoin ==
    (PastJoin \/ Len(listCalls) = 2) =>
        /\ Len(gs) = Len(listCalls[1].ids)
        /\ AllDone
        /\ wg = 0

C1_Witness ==
    /\ pc = "list2"
    /\ Len(gs) >= 2
    /\ \E j, k \in DOMAIN gs : Failed(j) /\ Succeeded(k)

\* C2: fan-out completeness: past the join, all K invocations have finished and
\* the log holds exactly M success lines and K-M failure lines, one per id, each
\* with the id (and error) of its own invocation.
C2_FanOutComplete ==
    PastJoin =>
        LET K == Len(listCalls[1].ids)
            M == Cardinality({k \in DOMAIN gs : Succeeded(k)})
        IN  /\ Len(gs) = K
            /\ AllDone
            /\ LogCount("successfully secured image") = M
            /\ LogCount("failed to secure image") = K - M
            /\ \A k \in DOMAIN gs :
                 /\ gs[k].id = listCalls[1].ids[k]
                 /\ CopiesIn(Outcome(gs[k]), log) = 1
                 /\ \A e \in BagToSet(log) :
                      (e.msg \in {"successfully secured image", "failed to secure image"}
                         /\ e.arg = gs[k].id) => e = Outcome(gs[k])

C2_Witness ==
    /\ pc = "list2"
    /\ Len(gs) = 3
    /\ Failed(1) /\ Succeeded(2) /\ Failed(3)
    /\ gs[1].pc = "done" /\ gs[2].pc = "done" /\ gs[3].pc = "done"

FirstListFailed == Len(listCalls) >= 1 /\ listCalls[1].err # Nil

SecureCallCount == Cardinality({k \in DOMAIN gs : gs[k].pc # "run"})

\* C3: if the first list call fails, with whatever error, the run is at its first
\* fatal exit: no secureImage call was or is made, no goroutine exists, no second
\* list call is made and "done" is never logged.
C3_FirstListFatal ==
    FirstListFailed =>
        /\ pc = "fatal1"
        /\ gs = <<>>
        /\ \A id \in Ids : secureCalls[id] = 0
        /\ Len(listCalls) = 1
        /\ LogCount("done") = 0
        /\ CopiesIn(Entry("failed to get images id", 0, listCalls[1].err), log) = 1

C3_Witness ==
    /\ pc = "fatal1"
    /\ listCalls[1].err = ErrStatus
    /\ \E m \in DOMAIN images : ~images[m].requireSignedURLs

\* C4: a failed secureImage invocation aborts neither its siblings nor main: with
\* some invocation failed, the process is not at a fatal exit before the second
\* list call, every sibling can still take its next step, a finished sibling has
\* logged its own outcome, and main can still leave the loop, pass the join once
\* all have finished, and issue the second list call.
C4_FailureDoesNotAbort ==
    (\E j \in DOMAIN gs : Failed(j)) =>
        /\ pc \notin {"fatal1", "usage"}
        /\ \A k \in DOMAIN gs :
             /\ (Alive /\ gs[k].pc = "run") => ENABLED GoSecure(k)
             /\ (Alive /\ gs[k].pc = "ret") => ENABLED GoReturn(k)
             /\ gs[k].pc = "done" => CopiesIn(Outcome(gs[k]), log) = 1
        /\ pc = "loop" => ENABLED (Launch \/ EndLoop)
        /\ (pc = "wait" /\ AllDone) => ENABLED Wait
        /\ pc = "list2" => ENABLED List2
        /\ ~Alive => AllDone

C4_Witness ==
    /\ pc = "report"
    /\ Len(gs) = 3
    /\ Failed(1) /\ Failed(2) /\ Succeeded(3)

\* C4, eventual form under FairSpec: once an invocation has failed, every
\* invocation still finishes and the second list call is still made.
C4_EventuallySecondList ==
    (\E j \in DOMAIN gs : Failed(j)) ~> (AllDone /\ Len(listCalls) = 2)

\* C7: secureImage is called exactly once for each id the first list returned and
\* for no other id: never more often than the id occurs in the first list, as
\* often once the join is passed, never for an image the first page showed as
\* protected, and never after the second list call.
C7_SecureOncePerListedId ==
    /\ Len(listCalls) = 0 => \A id \in Ids : secureCalls[id] = 0
    /\ Len(listCalls) >= 1 =>
         \A id \in Ids :
            /\ secureCalls[id] <= Occ(id, listCalls[1].ids)
            /\ secureCalls[id] = Cardinality({k \in DOMAIN gs : gs[k].id = id /\ gs[k].pc # "run"})
            /\ Occ(id, listCalls[1].ids) <= 1
            /\ PastJoin => secureCalls[id] = Occ(id, listCalls[1].ids)
            /\ (\E m \in DOMAIN listCalls[1].page :
                   /\ listCalls[1].page[m].id = id
                   /\ listCalls[1].page[m].requireSignedURLs) => secureCalls[id] = 0
    /\ \A k \in DOMAIN gs : gs[k].id \in Ids

C7_Witness ==
    /\ pc = "done"
    /\ Len(listCalls[2].ids) = 2
    /\ \E k \in DOMAIN gs : Failed(k) /\ secureCalls[gs[k].id] = 1
    /\ \E id \in Ids : secureCalls[id] = 0 /\ \E m \in DOMAIN images : images[m].id = id

\* C8: with fewer than 100 images in the service, a successful first list and
\* every secureImage call successful and applied by the service, the second list
\* returns no ids, no "images left unprotected" line is logged, no image of the
\* service is left unprotected, and a successful second list leads to "done".
C8_Convergence ==
    (/\ pad + Len(images) < maxPageSize
     /\ Len(listCalls) = 2
     /\ listCalls[1].err = Nil
     /\ \A k \in DOMAIN gs : gs[k].err = Nil /\ gs[k].applied) =>
        /\ listCalls[2].ids = <<>>
        /\ unprotectedImages = IF listCalls[2].err = Nil THEN <<>> ELSE listCalls[1].ids
        /\ LogCount("images left unprotected") = 0
        /\ \A m \in DOMAIN images : images[m].requireSignedURLs
        /\ listCalls[2].err = Nil => pc \in {"report", "done"}
        /\ pc = "done" => CopiesIn(Entry("done", 0, Nil), log) = 1

\* images a:false, b:true, c:false: first list [a, c], second list []
C8_Witness ==
    /\ pc = "done"
    /\ pad = 0
    /\ Len(images) = 3
    /\ listCalls[1].page = <<Image(1, FALSE), Image(2, TRUE), Image(3, FALSE)>>
    /\ listCalls[1].ids = <<1, 3>>
    /\ \A k \in DOMAIN gs : gs[k].err = Nil /\ gs[k].applied
    /\ listCalls[2].err = Nil
    /\ listCalls[2].ids = <<>>

SecondListFailed == Len(listCalls) = 2 /\ listCalls[2].err # Nil

\* C9: if the second list call fails the run is at its second fatal exit, not the
\* first: every invocation has finished and its outcome line is still in the log
\* exactly once, every secureImage call of the run has been made, and neither an
\* "images left unprotected" line nor "done" is logged.
C9_SecondListFatal ==
    SecondListFailed =>
        /\ pc = "fatal2"
        /\ Len(gs) = Len(listCalls[1].ids)
        /\ AllDone
        /\ \A k \in DOMAIN gs : CopiesIn(Outcome(gs[k]), log) = 1
        /\ LogCount("successfully secured image") + LogCount("failed to secure image")
             = Len(gs)
        /\ SecureCallCount = Len(listCalls[1].ids)
        /\ \A id \in Ids : secureCalls[id] = Occ(id, listCalls[1].ids)
        /\ LogCount("images left unprotected") = 0
        /\ LogCount("done") = 0
        /\ CopiesIn(Entry("failed to get images id", 0, listCalls[2].err), log) = 1

C9_Witness ==
    /\ pc = "fatal2"
    /\ listCalls[2].err = ErrSend
    /\ Len(gs) = 2
    /\ Failed(1) /\ Succeeded(2)

----------------------------------------------------------------------------
(* Claims about the client operations, checked under ClientSpec *)

SuccessFalse(c) == c.op \in {"list", "secure"} /\ c.x.sent /\ c.x.decodes /\ ~c.x.success

\* C5 as stated: every response with success=false makes the list and the secure
\* operation fail with ServiceError, whatever the HTTP status.
C5_Original == SuccessFalse(lastCall) => ServiceError(lastCall.ret.err)

\* C5 as amended: a response with success=false makes the list and the secure
\* operation fail with ServiceError when its status is 200, and with ProtocolError
\* when its status is anything else.
C5_ServiceErrorOnStatusOK ==
    SuccessFalse(lastCall) =>
        /\ lastCall.ret.err # Nil
        /\ lastCall.ret.ids = <<>>
        /\ lastCall.x.status = StatusOK => ServiceError(lastCall.ret.err)
        /\ lastCall.x.status # StatusOK => ProtocolError(lastCall.ret.err)

C5_Witness ==
    /\ SuccessFalse(lastCall)
    /\ lastCall.op = "list"
    /\ lastCall.x.status = StatusOK
    /\ \E m \in DOMAIN images : ~images[m].requireSignedURLs

\* C6: a successful list returns exactly the ids of the returned images whose
\* requireSignedURLs is false, once per occurrence and in the order returned.
C6_ListFilters ==
    (lastCall.op = "list" /\ lastCall.ret.err = Nil) =>
        LET imgs == lastCall.x.images
            ids == lastCall.ret.ids
            idx == {k \in DOMAIN imgs : ~imgs[k].requireSignedURLs}
            Nth(j) == CHOOSE k \in idx : Cardinality({m \in idx : m < k}) = j - 1
        IN  /\ imgs = ServicePage(lastCall.before, pad)
            /\ Len(ids) = Cardinality(idx)
            /\ \A j \in 1..Len(ids) : ids[j] = imgs[Nth(j)].id

C6_Witness ==
    /\ lastCall.op = "list"
    /\ lastCall.ret.err = Nil
    /\ lastCall.x.images = <<Image(2, FALSE), Image(1, TRUE)>>
    /\ lastCall.ret.ids = <<2>>

AlreadySecured(imgs, id) ==
    /\ \E m \in DOMAIN imgs : imgs[m].id = id
    /\ \A m \in DOMAIN imgs : imgs[m].id = id => imgs[m].requireSignedURLs

\* C10: secureImage on an image whose flag is already true, answered with status
\* 200 and success=true, returns no error and leaves the service as it was, the
\* flag still true; securing an image twice leaves the service as securing it once.
C10_SecureIdempotent ==
    /\ (/\ lastCall.op = "secure"
        /\ AlreadySecured(lastCall.before, lastCall.id)
        /\ lastCall.x.sent /\ lastCall.x.status = StatusOK
        /\ lastCall.x.decodes /\ lastCall.x.success) =>
           /\ lastCall.ret.err = Nil
           /\ images = lastCall.before
           /\ AlreadySecured(images, lastCall.id)
    /\ \A id \in Ids : Patch(Patch(images, id), id) = Patch(images, id)

C10_Witness ==
    /\ lastCall.op = "secure"
    /\ AlreadySecured(lastCall.before, lastCall.id)
    /\ lastCall.x.success
    /\ lastCall.x.status = StatusOK
    /\ lastCall.ret.err = Nil
    /\ \E m \in DOMAIN images : ~images[m].requireSignedURLs

----------------------------------------------------------------------------
(* Claims C11..C19 *)

FullPage(c) == listCalls[c].err = Nil /\ Len(listCalls[c].page) = maxPageSize

UnprotectedIn(page) == {m \in DOMAIN page : ~page[m].requireSignedURLs}

\* C11: the "more pages" warning is logged once for every list call that
\* succeeded with exactly 100 images and for no other list call (fewer images, or
\* a failed call, whatever its body carried); such a call is not fatal and
\* remediation goes on with one invocation per unprotected image of the page.
C11_PageCeilingWarning ==
    /\ LogCount("more pages") = Cardinality({c \in DOMAIN listCalls : FullPage(c)})
    /\ (Len(listCalls) >= 1 /\ FullPage(1)) =>
          /\ pc # "fatal1"
          /\ Len(listCalls[1].ids) = Cardinality(UnprotectedIn(listCalls[1].page))
          /\ \A k \in DOMAIN gs :
                \E m \in UnprotectedIn(listCalls[1].page) :
                   listCalls[1].page[m].id = gs[k].id
          /\ PastJoin => Len(gs) = Cardinality(UnprotectedIn(listCalls[1].page))

C11_Witness ==
    /\ pc = "list2"
    /\ Len(listCalls) = 1
    /\ FullPage(1)
    /\ CopiesIn(Entry("more pages", 0, Nil), log) = 1
    /\ Len(gs) = 1
    /\ gs[1].pc = "done"

BothListsSucceeded ==
    Len(listCalls) = 2 /\ listCalls[1].err = Nil /\ listCalls[2].err = Nil

SomeListFailed == \E c \in DOMAIN listCalls : listCalls[c].err # Nil

\* C12: "done" is reached only when both list calls succeeded, a fatal exit is
\* taken exactly when a list call failed, and once both list calls succeeded
\* nothing stands between the run and "done", whatever the outcomes of the
\* secureImage calls (all of them failing included).
C12_DoneIffBothListsSucceed ==
    /\ pc = "done" => BothListsSucceeded
    /\ BothListsSucceeded => pc \in {"report", "done"}
    /\ pc = "report" => ENABLED Report
    /\ pc \in {"fatal1", "fatal2"} <=> SomeListFailed
    /\ pc = "done" <=> CopiesIn(Entry("done", 0, Nil), log) = 1

C12_Witness ==
    /\ pc = "done"
    /\ Len(gs) = 3
    /\ \A k \in DOMAIN gs : Failed(k)

\* C13: each client operation reports exactly one outcome, by the precedence
\* TransportError (no response: the request could not be built or sent), then
\* ProtocolError (status not 200), then DecodeError, then ServiceError
\* (success false), then success; it succeeds if and only if a response came
\* with status 200, a body that decodes and success true.
C13_ErrorPrecedence ==
    lastCall.op \in {"list", "secure"} =>
        LET x == lastCall.x
            err == lastCall.ret.err
            kinds == {n \in 1..5 :
                        \/ n = 1 /\ TransportError(err)
                        \/ n = 2 /\ ProtocolError(err)
                        \/ n = 3 /\ DecodeError(err)
                        \/ n = 4 /\ ServiceError(err)
                        \/ n = 5 /\ err = Nil}
        IN  /\ Cardinality(kinds) = 1
            /\ TransportError(err) <=> ~x.sent
            /\ ProtocolError(err) <=> (x.sent /\ x.status # 200)
            /\ DecodeError(err) <=> (x.sent /\ x.status = 200 /\ ~x.decodes)
            /\ ServiceError(err) <=>
                 (x.sent /\ x.status = 200 /\ x.decodes /\ ~x.success)
            /\ err = Nil <=> (x.sent /\ x.status = 200 /\ x.decodes /\ x.success)
            /\ ~x.prepared => ~x.sent

C13_Witness ==
    /\ lastCall.op = "secure"
    /\ lastCall.x.sent
    /\ lastCall.x.status # 200
    /\ ~lastCall.x.decodes
    /\ ProtocolError(lastCall.ret.err)

Protected(id) ==
    \E m \in DOMAIN images : images[m].id = id /\ images[m].requireSignedURLs

ReportedFailed(k) == gs[k].pc = "done" /\ gs[k].err # Nil

\* C14 as stated: when the second list call is made, every image whose
\* secureImage call was reported as failed is still unprotected in the service.
C14_Original ==
    pc = "list2" => \A k \in DOMAIN gs : ReportedFailed(k) => ~Protected(gs[k].id)

\* C14 as amended: an image whose secureImage call failed got that one call and
\* no other, and it is still unprotected when the second list call is made, and
\* for the rest of the run, unless the service applied the update of that very
\* call before the client saw it fail.
C14_FailedLeftUnlessApplied ==
    \A k \in DOMAIN gs :
        Failed(k) =>
            /\ secureCalls[gs[k].id] = 1
            /\ Protected(gs[k].id) <=> gs[k].applied

C14_Witness ==
    /\ pc = "list2"
    /\ Len(gs) = 2
    /\ ReportedFailed(1) /\ ~gs[1].applied /\ ~Protected(gs[1].id)
    /\ ReportedFailed(2) /\ gs[2].applied /\ Protected(gs[2].id)

\* C15: once the run is done, an "images left unprotected" line has been logged
\* if and only if the second list returned some id, once, and with the number of
\* images of the second list's page whose requireSignedURLs is false; "done" is
\* logged in both cases, and neither line is logged before the second list
\* succeeded.
C15_RemainingCount ==
    /\ pc = "done" =>
         LET n == Cardinality(UnprotectedIn(listCalls[2].page))
         IN  /\ listCalls[2].err = Nil
             /\ Len(listCalls[2].ids) = n
             /\ LogCount("images left unprotected") = (IF n > 0 THEN 1 ELSE 0)
             /\ n > 0 => CopiesIn(Entry("images left unprotected", n, Nil), log) = 1
             /\ CopiesIn(Entry("done", 0, Nil), log) = 1
    /\ pc # "done" =>
         LogCount("images left unprotected") = 0 /\ LogCount("done") = 0
    /\ pc = "report" => unprotectedImages = listCalls[2].ids

C15_Witness ==
    /\ pc = "done"
    /\ CopiesIn(Entry("images left unprotected", 2, Nil), log) = 1
    /\ Len(gs) = 3
    /\ Len(listCalls[2].page) = 3

C15_WitnessNone ==
    /\ pc = "done"
    /\ LogCount("images left unprotected") = 0
    /\ Len(gs) = 2

Outstanding == Cardinality({k \in DOMAIN gs : gs[k].pc # "done"})

\* C16: the number of secureImage invocations outstanding at once is the
\* WaitGroup counter; it never exceeds the number of ids the first list returned,
\* which never exceeds the number of images of the first page, which never
\* exceeds the page size of 100.
C16_OutstandingBounded ==
    /\ wg = Outstanding
    /\ Outstanding <= maxPageSize
    /\ Len(listCalls) = 0 => gs = <<>>
    /\ Len(listCalls) >= 1 =>
         /\ Outstanding <= Len(listCalls[1].ids)
         /\ Len(gs) <= Len(listCalls[1].ids)
         /\ Len(listCalls[1].ids) <= Len(listCalls[1].page)
         /\ Len(listCalls[1].page) <= maxPageSize

C16_Witness ==
    /\ pc = "wait"
    /\ Outstanding = 3
    /\ Len(listCalls[1].ids) = 3
    /\ \A k \in DOMAIN gs : gs[k].pc = "run"

C16_WitnessTruncated ==
    /\ pc = "wait"
    /\ Len(listCalls[1].page) = maxPageSize
    /\ pad + Len(images) > maxPageSize
    /\ Outstanding = 1

Terminated == pc \in {"fatal1", "fatal2", "done"}

\* C17: under FairSpec (every remote call returns, runnable goroutines run) a run
\* that passed the flag check ends in "done" or at a fatal exit, which it only
\* reaches through the join; the join can be passed as soon as all K >= 0
\* invocations have returned, since every invocation that returned, successfully
\* or not, has decremented the WaitGroup exactly once.
C17_Terminates ==
    /\ [](/\ wg = Outstanding
          /\ wg >= 0
          /\ (pc = "wait" /\ AllDone) => ENABLED Wait)
    /\ (pc = "list1") ~> Terminated

C17_Witness ==
    /\ pc = "done"
    /\ Len(gs) = 3
    /\ gs[1].err = ErrSend /\ Succeeded(2) /\ gs[3].err = ErrSend

C17_WitnessNone ==
    /\ pc = "list2"
    /\ gs = <<>>
    /\ listCalls[1].ids = <<>>

\* C18: no step sets an image's requireSignedURLs to false or alters the list of
\* images otherwise; a step that makes a list call leaves every flag as it was, a
\* step that calls secureImage(id) changes at most the flag of id, and no other
\* step changes the service. (Stated over the steps of ClientSpec, where
\* secureImage is also called on protected images, and of Spec alike.)
C18_ProtectionMonotone ==
    [][/\ Len(images') = Len(images)
       /\ pad' = pad
       /\ \A m \in DOMAIN images :
            /\ images'[m].id = images[m].id
            /\ images[m].requireSignedURLs => images'[m].requireSignedURLs
       /\ (listCalls' # listCalls \/ (pc = "client" /\ lastCall'.op = "list"))
             => images' = images
       /\ \A id \in Ids :
            (secureCalls'[id] # secureCalls[id]
               \/ (pc = "client" /\ lastCall'.op = "secure" /\ lastCall'.id = id)) =>
               \A m \in DOMAIN images : images[m].id # id => images'[m] = images[m]
       /\ images' # images =>
            \/ \E id \in Ids : secureCalls'[id] = secureCalls[id] + 1
            \/ pc = "client" /\ lastCall'.op = "secure" /\ lastCall'.before = images]_vars

C18_Witness ==
    /\ lastCall.op = "secure"
    /\ lastCall.before # images
    /\ \E m \in DOMAIN images :
          lastCall.before[m].requireSignedURLs /\ images[m].requireSignedURLs

FlagMissing == accountID = "" \/ apiKey = ""

\* C19: with the account id or the API key empty the run only prints usage and
\* returns: it never reaches a list call, a secureImage call, a goroutine or a
\* fatal exit, and the service is left as it was; with both given no usage is
\* printed.
C19_MissingFlagUsage ==
    /\ FlagMissing =>
         /\ pc \in {"flags", "usage"}
         /\ listCalls = <<>>
         /\ gs = <<>>
         /\ \A id \in Ids : secureCalls[id] = 0
         /\ wg = 0
         /\ images \in ServiceImages
         /\ log = (IF pc = "usage" THEN SetToBag({Entry("usage", 0, Nil)}) ELSE EmptyBag)
         /\ pc = "flags" => ENABLED ParseFlags
    /\ ~FlagMissing => LogCount("usage") = 0 /\ pc # "usage"

C19_Witness ==
    /\ pc = "usage"
    /\ accountID = "acct"
    /\ apiKey = ""
    /\ \E m \in DOMAIN images : ~images[m].requireSignedURLs

====
